---------------------------- MODULE Spec2Model ----------------------------
(***************************************************************************)
(* Model of the cronjobs repository: the orchestrator that shells out to   *)
(* the probes, the probes' main functions (harddrive, cpu, os, domains,    *)
(* nameserver) and the text parsers they use.                              *)
(*                                                                         *)
(* Text is modelled as a sequence of one-character strings, so that the    *)
(* parsers are computed character by character as the Go code does.        *)
(***************************************************************************)
EXTENDS Integers, Sequences, FiniteSets, TLC

VARIABLES
    \* ---- orchestrator (src/unnamed/part_000) ----
    opc,        \* position of main: "loop", "run", "done"
    oi,         \* index into scripts of the current iteration
    procs,      \* subprocesses started so far, in start order
    olog,       \* what the orchestrator printed / logged, in order
    \* ---- one probe run (src/bin/*.go, src/unnamed/part_001..004) ----
    probe,      \* which probe's main is running
    pc,         \* position in that main
    env,        \* facts of the host: goos, minute of the wall clock
    id,         \* server id read from .env ("" when not set)
    items,      \* the list main iterates over (paths, certificate names, records)
    idx,        \* index of the current item
    cur,        \* per-iteration local (usage, recordID, nameserver)
    trace,      \* events of the run in order: config reads, commands, requests, output
    exit,       \* "running", "ok" (main returned) or "fatal" (log.Fatal)
    \* ---- parsers applied to one input ----
    fn,         \* parser under test
    input,      \* the text handed to it
    result,     \* its result
    applied     \* whether it has been applied

orchVars  == <<opc, oi, procs, olog>>
probeVars == <<probe, pc, env, id, items, idx, cur, trace, exit>>
parseVars == <<fn, input, result, applied>>
vars == <<opc, oi, procs, olog, probe, pc, env, id, items, idx, cur, trace, exit,
          fn, input, result, applied>>

(***************************************************************************)
(* Bounds of the model.                                                    *)
(***************************************************************************)
MaxRows == 3      \* data lines of a df output
MaxCertLines == 3 \* lines of a certbot output

(***************************************************************************)
(* Go's strings / bytes / bufio helpers on character sequences.            *)
(***************************************************************************)
\* unicode.IsSpace restricted to the characters that occur
IsSpace(c) == c \in {" ", "\t", "\n", "\r"}

\* strings.HasPrefix
HasPrefix(s, p) == Len(s) >= Len(p) /\ SubSeq(s, 1, Len(p)) = p

\* strings.TrimPrefix
TrimPrefix(s, p) == IF HasPrefix(s, p) THEN SubSeq(s, Len(p) + 1, Len(s)) ELSE s

\* strings.Index: position (1-based) of the first occurrence of sub, 0 when absent
Index(s, sub) ==
    LET hits == {k \in 1..(Len(s) - Len(sub) + 1) : SubSeq(s, k, k + Len(sub) - 1) = sub}
    IN  IF hits = {} THEN 0 ELSE CHOOSE k \in hits : \A j \in hits : k <= j

\* strings.Contains
Contains(s, sub) == Index(s, sub) # 0

\* strings.Replace(s, old, new, 1): the first occurrence only
ReplaceFirst(s, old, new) ==
    LET k == Index(s, old)
    IN  IF k = 0 THEN s
        ELSE SubSeq(s, 1, k - 1) \o new \o SubSeq(s, k + Len(old), Len(s))

RECURSIVE TrimLeft(_)
TrimLeft(s) == IF s # <<>> /\ IsSpace(Head(s)) THEN TrimLeft(Tail(s)) ELSE s

RECURSIVE TrimRight(_)
TrimRight(s) ==
    IF s # <<>> /\ IsSpace(s[Len(s)]) THEN TrimRight(SubSeq(s, 1, Len(s) - 1)) ELSE s

\* strings.TrimSpace
TrimSpace(s) == TrimRight(TrimLeft(s))

\* strings.Split(s, "\n"): n separators give n+1 pieces, empty ones kept
RECURSIVE SplitLines(_)
SplitLines(s) ==
    LET k == Index(s, <<"\n">>)
    IN  IF k = 0 THEN <<s>>
        ELSE <<SubSeq(s, 1, k - 1)>> \o SplitLines(SubSeq(s, k + 1, Len(s)))

\* strings.Fields: the maximal runs of non-space characters
RECURSIVE Fields(_)
Fields(s) ==
    LET t == TrimLeft(s)
    IN  IF t = <<>> THEN <<>>
        ELSE LET sp == {k \in 1..Len(t) : IsSpace(t[k])}
                 e  == IF sp = {} THEN Len(t) + 1
                       ELSE CHOOSE k \in sp : \A j \in sp : k <= j
             IN  <<SubSeq(t, 1, e - 1)>> \o Fields(SubSeq(t, e, Len(t)))

\* bufio.Scanner with the default ScanLines: lines end at "\n", one trailing
\* "\r" is dropped, a final line without "\n" is returned when non-empty
DropCR(l) == IF l # <<>> /\ l[Len(l)] = "\r" THEN SubSeq(l, 1, Len(l) - 1) ELSE l

RECURSIVE ScanLines(_)
ScanLines(s) ==
    LET k == Index(s, <<"\n">>)
    IN  IF s = <<>> THEN <<>>
        ELSE IF k = 0 THEN <<DropCR(s)>>
        ELSE <<DropCR(SubSeq(s, 1, k - 1))>> \o ScanLines(SubSeq(s, k + 1, Len(s)))

\* strings.Join of lines with "\n" after each (how a command prints them)
RECURSIVE Unlines(_)
Unlines(ls) == IF ls = <<>> THEN <<>> ELSE Head(ls) \o <<"\n">> \o Unlines(Tail(ls))

\* all sequences over S of length 0..n
SeqsUpTo(S, n) == UNION {[1..k -> S] : k \in 0..n}

(***************************************************************************)
(* harddrive.go: getMountedPaths                                           *)
(***************************************************************************)
\* lines 154-167: every non-blank line after the first contributes fields[0]
RECURSIVE PathsOfLines(_)
PathsOfLines(ls) ==
    IF ls = <<>> THEN <<>>
    ELSE LET fields == Fields(Head(ls))
         IN  (IF Len(fields) > 0 THEN <<fields[1]>> ELSE <<>>) \o PathsOfLines(Tail(ls))

getMountedPaths(out) == PathsOfLines(Tail(SplitLines(out)))

(***************************************************************************)
(* domains.go and its earlier version: getCertbotCertificates              *)
(***************************************************************************)
CertLabel == <<"C","e","r","t","i","f","i","c","a","t","e"," ","N","a","m","e",":">>

\* src/bin/domains.go 72-80
RECURSIVE CertsOfLines(_)
CertsOfLines(ls) ==
    IF ls = <<>> THEN <<>>
    ELSE (IF Contains(Head(ls), CertLabel)
          THEN <<ReplaceFirst(Head(ls), CertLabel, <<>>)>> ELSE <<>>)
         \o CertsOfLines(Tail(ls))

getCertbotCertificates(out) == CertsOfLines(ScanLines(out))

\* src/unnamed/part_003 72-80
RECURSIVE CertsOfLinesV1(_)
CertsOfLinesV1(ls) ==
    IF ls = <<>> THEN <<>>
    ELSE (IF Contains(Head(ls), CertLabel)
          THEN <<TrimSpace(TrimPrefix(Head(ls), CertLabel))>> ELSE <<>>)
         \o CertsOfLinesV1(Tail(ls))

getCertbotCertificatesV1(out) == CertsOfLinesV1(ScanLines(out))

(***************************************************************************)
(* Inputs of the parsers: what `df -h` and `certbot certificates` print.   *)
(* A line is kept with what it stands for (key: the file system or the     *)
(* certificate name it carries, special: a non-disk file system) so that   *)
(* a property can say what the parser should have made of it.              *)
(***************************************************************************)
DfHeader == <<"F","i","l","e","s","y","s","t","e","m"," "," "," "," "," "," ","S","i","z","e"," "," ","U","s","e","d"," ","A","v","a","i","l"," ","U","s","e","%"," ","M","o","u","n","t","e","d"," ","o","n">>

DevSda1 == <<"/","d","e","v","/","s","d","a","1">>
DevSdb1 == <<"/","d","e","v","/","s","d","b","1">>
Tmpfs   == <<"t","m","p","f","s">>
Udev    == <<"u","d","e","v">>

DfRows ==
    { [text |-> DevSda1 \o <<" "," "," ","5","0","G"," "," ","2","0","G"," "," ","3","0","G"," "," ","4","5","%"," ","/">>, key |-> DevSda1, special |-> FALSE],
      [text |-> DevSdb1 \o <<" "," ","1","0","0","G"," "," ","9","0","G"," "," ","1","0","G"," "," ","9","0","%"," ","/","d","a","t","a">>, key |-> DevSdb1, special |-> FALSE],
      [text |-> Tmpfs \o <<" "," ","2",".","0","G"," "," "," "," ","0"," ","2",".","0","G"," "," "," ","0","%"," ","/","d","e","v","/","s","h","m">>, key |-> Tmpfs, special |-> TRUE],
      [text |-> Udev \o <<" "," ","2",".","0","G"," "," "," "," ","0"," ","2",".","0","G"," "," "," ","0","%"," ","/","d","e","v">>, key |-> Udev, special |-> TRUE] }

NameA == <<"a",".","i","o">>
NameB == <<"b",".","d","e">>
NoName == <<>>

CertLines ==
    { [text |-> <<" ", " ">> \o CertLabel \o <<" ">> \o NameA, key |-> NameA, special |-> FALSE],
      [text |-> <<" ", " ">> \o CertLabel \o <<" ">> \o NameB, key |-> NameB, special |-> FALSE],
      [text |-> CertLabel \o <<" ">> \o NameA, key |-> NameA, special |-> FALSE],
      [text |-> <<" "," "," "," ","D","o","m","a","i","n","s",":"," ","a",".","i","o">>, key |-> NoName, special |-> FALSE] }

CertbotPreamble == <<"F","o","u","n","d"," ","t","h","e"," ","f","o","l","l","o","w","i","n","g"," ","c","e","r","t","s",":">>

RECURSIVE Texts(_)
Texts(rows) == IF rows = <<>> THEN <<>> ELSE <<Head(rows).text>> \o Texts(Tail(rows))

\* stdout of `df -h`: the header line, then one line per mounted file system
DfOutput(rows) == Unlines(<<DfHeader>> \o Texts(rows))

\* stdout of `certbot certificates`
CertbotOutput(lines) == Unlines(<<CertbotPreamble>> \o Texts(lines))

ParseFns == {"getMountedPaths", "getCertbotCertificates", "getCertbotCertificatesV1"}

ParseInputs(f) ==
    IF f = "getMountedPaths" THEN SeqsUpTo(DfRows, MaxRows)
    ELSE SeqsUpTo(CertLines, MaxCertLines)

(***************************************************************************)
(* Values of the variables a specification does not use.                   *)
(***************************************************************************)
OrchIdle ==
    /\ opc = "idle" /\ oi = 0 /\ procs = <<>> /\ olog = <<>>

ProbeIdle ==
    /\ probe = "none" /\ pc = "idle" /\ env = <<>> /\ id = "" /\ items = <<>>
    /\ idx = 0 /\ cur = <<>> /\ trace = <<>> /\ exit = "idle"

ParseIdle ==
    /\ fn = "none" /\ input = <<>> /\ result = <<>> /\ applied = FALSE

(***************************************************************************)
(* The orchestrator: src/unnamed/part_000                                  *)
(***************************************************************************)
\* lines 12-17
scripts == <<"bin/harddrive.go", "bin/cpu.go", "bin/domains.go", "bin/nameserver.go">>

\* what a probe subprocess may leave in the two captured buffers
ProbeStdouts == {"", "report"}
ProbeStderrs == {"", "fatal"}

\* lines 24-29: exec.Command("go", "run", scriptPath) with both buffers empty
NewProc(scriptPath) ==
    [script |-> scriptPath, state |-> "running", stdout |-> "", stderr |-> ""]

\* cmd.Start would return at once: the mutant of RunReturned
StartReturned(p) == TRUE

\* line 32: cmd.Run starts the subprocess and returns only when it has exited
RunReturned(p) == p.state # "running"

\* line 32: err of cmd.Run, non-nil when the subprocess exited with an error
RunErr(p) == p.state = "failed"

\* a loop that runs a failed script again: a mutant of NextIndex
NextIndexRetry(i, p) == IF RunErr(p) THEN i ELSE i + 1

\* a loop that stops at the first failure (break for continue): a mutant of NextIndex
NextIndexBreak(i, p) == IF RunErr(p) THEN Len(scripts) + 1 ELSE i + 1

\* lines 20, 35, 40: `continue` and the end of the body both go to the next script
NextIndex(i, p) == i + 1

\* the error branch without its `continue`: a mutant of AfterRun
AfterRunFallThrough(p) ==
    IF RunErr(p)
    THEN << [kind |-> "error", script |-> p.script, text |-> p.stderr],
            [kind |-> "output", script |-> p.script, text |-> p.stdout] >>
    ELSE << [kind |-> "output", script |-> p.script, text |-> p.stdout] >>

\* lines 33-39: what the loop body writes once cmd.Run has returned
AfterRun(p) ==
    IF RunErr(p)
    THEN << [kind |-> "error", script |-> p.script, text |-> p.stderr] >>
    ELSE << [kind |-> "output", script |-> p.script, text |-> p.stdout] >>

OrchInit ==
    /\ opc = "loop" /\ oi = 1 /\ procs = <<>> /\ olog = <<>>

\* lines 20-32: print "Running script", build the command, start the subprocess
OrchStart ==
    /\ opc = "loop" /\ oi <= Len(scripts)
    /\ olog' = Append(olog, [kind |-> "running", script |-> scripts[oi], text |-> ""])
    /\ procs' = Append(procs, NewProc(scripts[oi]))
    /\ opc' = "run"
    /\ UNCHANGED <<oi, probeVars, parseVars>>

\* the subprocess (`go run <script>`) writes its output and exits
ProbeExit ==
    \E k \in 1..Len(procs) : \E st \in {"ok", "failed"} :
    \E so \in ProbeStdouts : \E se \in ProbeStderrs :
        /\ procs[k].state = "running"
        /\ procs' = [procs EXCEPT ![k] = [script |-> procs[k].script, state |-> st,
                                          stdout |-> so, stderr |-> se]]
        /\ UNCHANGED <<opc, oi, olog, probeVars, parseVars>>

\* lines 32-40: cmd.Run returns; log the error or print the output; next script
OrchRunReturns ==
    /\ opc = "run"
    /\ RunReturned(procs[Len(procs)])
    /\ olog' = olog \o AfterRun(procs[Len(procs)])
    /\ oi' = NextIndex(oi, procs[Len(procs)])
    /\ opc' = "loop"
    /\ UNCHANGED <<procs, probeVars, parseVars>>

\* line 42
OrchFinish ==
    /\ opc = "loop" /\ oi > Len(scripts)
    /\ olog' = Append(olog, [kind |-> "all", script |-> "", text |-> "All scripts executed."])
    /\ opc' = "done"
    /\ UNCHANGED <<oi, procs, probeVars, parseVars>>

OrchNext == OrchStart \/ ProbeExit \/ OrchRunReturns \/ OrchFinish

\* main runs to its end unless blocked in cmd.Run; every probe is assumed to terminate
OrchSpecInit == OrchInit /\ ProbeIdle /\ ParseIdle

OrchSpec ==
    /\ OrchSpecInit
    /\ [][OrchNext]_vars
    /\ WF_vars(OrchStart) /\ WF_vars(ProbeExit)
    /\ WF_vars(OrchRunReturns) /\ WF_vars(OrchFinish)

(***************************************************************************)
(* The parsers applied to one command output.                              *)
(***************************************************************************)
ParseInit ==
    /\ fn \in ParseFns
    /\ input \in ParseInputs(fn)
    /\ result = <<>>
    /\ applied = FALSE

ApplyGetMountedPaths ==
    /\ fn = "getMountedPaths" /\ ~applied
    /\ result' = getMountedPaths(DfOutput(input))
    /\ applied' = TRUE
    /\ UNCHANGED <<fn, input, orchVars, probeVars>>

ApplyGetCertbotCertificates ==
    /\ fn = "getCertbotCertificates" /\ ~applied
    /\ result' = getCertbotCertificates(CertbotOutput(input))
    /\ applied' = TRUE
    /\ UNCHANGED <<fn, input, orchVars, probeVars>>

ApplyGetCertbotCertificatesV1 ==
    /\ fn = "getCertbotCertificatesV1" /\ ~applied
    /\ result' = getCertbotCertificatesV1(CertbotOutput(input))
    /\ applied' = TRUE
    /\ UNCHANGED <<fn, input, orchVars, probeVars>>

ParseNext ==
    ApplyGetMountedPaths \/ ApplyGetCertbotCertificates \/ ApplyGetCertbotCertificatesV1

ParseSpecInit == ParseInit /\ OrchIdle /\ ProbeIdle

ParseSpec == ParseSpecInit /\ [][ParseNext]_vars

(***************************************************************************)
(* One run of one probe.                                                   *)
(*   harddrive  src/bin/harddrive.go        cpu     src/unnamed/part_004   *)
(*   os         src/bin/os.go               cpuTop  src/unnamed/part_004   *)
(*   domains    src/bin/domains.go          (second file, from line 201)   *)
(*   domainsV1  src/unnamed/part_003        domainsV0 src/unnamed/part_002 *)
(*   nameserver src/unnamed/part_001                                       *)
(* The host (files, commands, clock) and the HTTP service are the          *)
(* environment: every outcome they can give is a choice of the action.     *)
(***************************************************************************)
MaxPaths == 2     \* data lines of the df output a harddrive run sees
MaxCerts == 2     \* lines of the certbot output a domains run sees
MaxRecords == 2   \* records the nameserver run gets from the service

Probes == {"harddrive", "cpu", "cpuTop", "os", "domains", "domainsV1", "domainsV0",
           "nameserver"}

Minutes == 0..59

ServerID == "srv1"                         \* the ID= line of .env
ConfigDomain == "pb.example.org"           \* "domain" of smc.json
AdminURL == "admin.server-manager.cloud"   \* os.go:132, part_001:117, part_002:13

\* what client.Do can give: a transport error or a response status
HttpOutcomes == {"err", "200", "201", "404", "500"}

\* <host>/api/collections/<coll>/records[/<rec>][?filter=name=<filter>]
URL(host, coll, rec, filter) == [host |-> host, coll |-> coll, rec |-> rec, filter |-> filter]
NoURL == URL("", "", "", <<>>)

\* the events of a run
CfgEv(file, ok) ==
    [kind |-> "cfg", what |-> file, status |-> IF ok THEN "ok" ELSE "err",
     url |-> NoURL, body |-> "", item |-> 0]
CmdEv(cmd, i) ==
    [kind |-> "cmd", what |-> cmd, status |-> "", url |-> NoURL, body |-> "", item |-> i]
ReqEv(method, url, status, body, i) ==
    [kind |-> "req", what |-> method, status |-> status, url |-> url, body |-> body,
     item |-> i]
RetEv(f, value, ok, i) ==
    [kind |-> "ret", what |-> f, status |-> IF ok THEN "ok" ELSE "err",
     url |-> NoURL, body |-> value, item |-> i]
OutEv(msg, i) ==
    [kind |-> "out", what |-> msg, status |-> "", url |-> NoURL, body |-> "", item |-> i]

FirstPc(p) ==
    CASE p \in {"harddrive", "cpu", "cpuTop"} -> "loadEnv"
      [] p = "os" -> "loadServerID"
      [] p \in {"domains", "domainsV1"} -> "loadConfig"
      [] p = "domainsV0" -> "getDomains"
      [] p = "nameserver" -> "getRecords"

\* only os.go reads runtime.GOOS and only the cpu probes read the clock
ProbeInit ==
    /\ probe \in Probes
    /\ pc = FirstPc(probe)
    /\ env \in [goos : IF probe = "os" THEN {"linux", "darwin"} ELSE {"linux"},
                minute : IF probe \in {"cpu", "cpuTop"} THEN Minutes ELSE {0}]
    /\ id = "" /\ items = <<>> /\ idx = 0 /\ cur = ""
    /\ trace = <<>>
    /\ exit = "running"

\* log.Fatalf: the message, then os.Exit(1)
Fatal(evs, msg) ==
    /\ trace' = trace \o evs \o <<OutEv(msg, 0)>>
    /\ exit' = "fatal"
    /\ pc' = "exited"
    /\ UNCHANGED <<probe, env, id, items, idx, cur>>

\* main returns
Return(evs) ==
    /\ trace' = trace \o evs
    /\ exit' = "ok"
    /\ pc' = "exited"
    /\ UNCHANGED <<probe, env, id, items, idx, cur>>

\* the status check of every probe that accepts 200 and 201
StatusOK(st) == st \in {"200", "201"}

(***************************************************************************)
(* harddrive.go, and the two cpu probes up to their measurement            *)
(***************************************************************************)
\* harddrive.go 192-195, part_004 169-172, 351-354: loadEnv sets the variables of .env
LoadEnv ==
    /\ probe \in {"harddrive", "cpu", "cpuTop"} /\ pc = "loadEnv"
    /\ \E r \in {"err", "noID", "ok"} :
          IF r = "err"
          THEN Fatal(<<CfgEv(".env", FALSE)>>, "Error loading .env file")
          ELSE /\ trace' = Append(trace, CfgEv(".env", TRUE))
               /\ id' = IF r = "ok" THEN ServerID ELSE ""
               /\ pc' = "loadConfig"
               /\ UNCHANGED <<probe, env, items, idx, cur, exit>>
    /\ UNCHANGED <<orchVars, parseVars>>

\* `config, _ := loadConfig(...)`: the error dropped, a mutant of LoadConfig
LoadConfigErrorDropped ==
    /\ probe \in {"harddrive", "cpu", "cpuTop"} /\ pc = "loadConfig"
    /\ \E ok \in BOOLEAN :
          /\ trace' = Append(trace, CfgEv("smc.json", ok))
          /\ pc' = "checkID"
          /\ UNCHANGED <<probe, env, id, items, idx, cur, exit>>
    /\ UNCHANGED <<orchVars, parseVars>>

\* harddrive.go 198-201, part_004 175-178, 357-360
LoadConfig ==
    /\ probe \in {"harddrive", "cpu", "cpuTop"} /\ pc = "loadConfig"
    /\ \E ok \in BOOLEAN :
          IF ~ok
          THEN Fatal(<<CfgEv("smc.json", FALSE)>>, "Error loading smc.json file")
          ELSE /\ trace' = Append(trace, CfgEv("smc.json", TRUE))
               /\ pc' = "checkID"
               /\ UNCHANGED <<probe, env, id, items, idx, cur, exit>>
    /\ UNCHANGED <<orchVars, parseVars>>

\* harddrive.go 204-207, part_004 181-184, 363-366
CheckID ==
    /\ probe \in {"harddrive", "cpu", "cpuTop"} /\ pc = "checkID"
    /\ IF id = ""
       THEN Fatal(<<>>, "ID environment variable not set.")
       ELSE /\ pc' = IF probe = "harddrive" THEN "getPaths" ELSE "getCPUUsage"
            /\ UNCHANGED <<probe, env, id, items, idx, cur, trace, exit>>
    /\ UNCHANGED <<orchVars, parseVars>>

ProbeDfRows == {r \in DfRows : r.key \in {DevSda1, Tmpfs}}

\* harddrive.go 210-213: `df -h`, parsed by getMountedPaths
HD_GetMountedPaths ==
    /\ probe = "harddrive" /\ pc = "getPaths"
    /\ \/ Fatal(<<CmdEv("df -h", 0)>>, "Error getting mounted paths")
       \/ \E rows \in SeqsUpTo(ProbeDfRows, MaxPaths) :
             /\ items' = getMountedPaths(DfOutput(rows))
             /\ idx' = 1
             /\ trace' = Append(trace, CmdEv("df -h", 0))
             /\ pc' = "diskUsage"
             /\ UNCHANGED <<probe, env, id, cur, exit>>
    /\ UNCHANGED <<orchVars, parseVars>>

\* strings.TrimSuffix
TrimSuffix(s, suf) ==
    IF Len(s) >= Len(suf) /\ SubSeq(s, Len(s) - Len(suf) + 1, Len(s)) = suf
    THEN SubSeq(s, 1, Len(s) - Len(suf)) ELSE s

DigitChars == {"0", "1", "2", "3", "4", "5", "6", "7", "8", "9"}

DigitValue(c) ==
    CASE c = "0" -> 0 [] c = "1" -> 1 [] c = "2" -> 2 [] c = "3" -> 3 [] c = "4" -> 4
      [] c = "5" -> 5 [] c = "6" -> 6 [] c = "7" -> 7 [] c = "8" -> 8 [] c = "9" -> 9

RECURSIVE DecimalValue(_)
DecimalValue(s) ==
    IF s = <<>> THEN 0
    ELSE 10 * DecimalValue(SubSeq(s, 1, Len(s) - 1)) + DigitValue(s[Len(s)])

\* strconv.Atoi: an optional sign, then one or more decimal digits
Atoi(s) ==
    LET signed == s # <<>> /\ Head(s) \in {"+", "-"}
        digits == IF signed THEN Tail(s) ELSE s
    IN  IF digits = <<>> \/ \E k \in 1..Len(digits) : digits[k] \notin DigitChars
        THEN [err |-> TRUE, value |-> 0]
        ELSE [err |-> FALSE,
              value |-> IF signed /\ Head(s) = "-" THEN 0 - DecimalValue(digits)
                        ELSE DecimalValue(digits)]

\* harddrive.go 77-94: the fifth field of the second line, without its percent sign
getDiskUsage(out) ==
    LET lines == SplitLines(out)
    IN  IF Len(lines) < 2 THEN [err |-> TRUE, value |-> 0]
        ELSE LET fields == Fields(lines[2])
             IN  IF Len(fields) < 5 THEN [err |-> TRUE, value |-> 0]
                 ELSE Atoi(TrimSuffix(fields[5], <<"%">>))

\* a pseudo file system, for which df prints "-" as its usage
ProcRow ==
    [text |-> <<"p","r","o","c"," "," "," "," "," "," "," "," "," "," "," "," "," "," "," ","0"," "," "," "," ","0"," "," "," "," ","0"," "," "," "," ","-"," ","/","p","r","o","c">>, key |-> <<"p","r","o","c">>, special |-> TRUE]

\* what `df -h <path>` may print: nothing, the header alone, or the header
\* and the line of the file system
DfPathOutputs ==
    {<<>>} \cup {DfOutput(rows) : rows \in SeqsUpTo(ProbeDfRows \cup {ProcRow}, 1)}

\* harddrive.go 219-221: the error is logged and the loop goes on
DiskUsageFailed ==
    /\ trace' = trace \o <<CmdEv("df -h <path>", idx),
                           RetEv("getDiskUsage", "", FALSE, idx),
                           OutEv("Error getting disk usage", idx)>>
    /\ idx' = idx + 1
    /\ UNCHANGED <<pc, cur>>

\* harddrive.go 216-222 with getDiskUsage (65-95): `df -h <path>` fails, or its
\* output is parsed; an error is logged and the loop goes on
HD_GetDiskUsage ==
    /\ probe = "harddrive" /\ pc = "diskUsage" /\ idx <= Len(items)
    /\ \/ DiskUsageFailed
       \/ \E out \in DfPathOutputs :
             LET r == getDiskUsage(out)
             IN  IF r.err
                 THEN DiskUsageFailed
                 ELSE /\ trace' = trace \o <<CmdEv("df -h <path>", idx),
                                             RetEv("getDiskUsage", "", TRUE, idx)>>
                      /\ cur' = r.value
                      /\ pc' = "send"
                      /\ UNCHANGED idx
    /\ UNCHANGED <<probe, env, id, items, exit, orchVars, parseVars>>

\* a failed POST that ends the run, as in the domains probes: a mutant of HD_SendUsage
HD_SendUsageFatal ==
    /\ probe = "harddrive" /\ pc = "send"
    /\ \E st \in HttpOutcomes :
          LET req == ReqEv("POST", URL(ConfigDomain, "harddrives", "", <<>>), st, "", idx)
          IN  IF StatusOK(st)
              THEN /\ trace' = trace \o
                          <<req, OutEv("Hard drive usage successfully reported", idx)>>
                   /\ idx' = idx + 1
                   /\ pc' = "diskUsage"
                   /\ UNCHANGED <<probe, env, id, items, cur, exit>>
              ELSE Fatal(<<req>>, "Error sending usage")
    /\ UNCHANGED <<orchVars, parseVars>>

\* harddrive.go 225-231 with sendUsageToPocketBase (98-139): one POST; an
\* error is logged and the loop goes on
HD_SendUsage ==
    /\ probe = "harddrive" /\ pc = "send"
    /\ \E st \in HttpOutcomes :
          trace' = trace \o
              << ReqEv("POST", URL(ConfigDomain, "harddrives", "", <<>>), st, "", idx),
                 IF StatusOK(st)
                 THEN OutEv("Hard drive usage successfully reported", idx)
                 ELSE OutEv("Error sending usage", idx) >>
    /\ idx' = idx + 1
    /\ pc' = "diskUsage"
    /\ UNCHANGED <<probe, env, id, items, cur, exit, orchVars, parseVars>>

\* harddrive.go 216, 233: the range is exhausted and main returns
HD_Return ==
    /\ probe = "harddrive" /\ pc = "diskUsage" /\ idx > Len(items)
    /\ Return(<<>>)
    /\ UNCHANGED <<orchVars, parseVars>>

(***************************************************************************)
(* The cpu probes: part_004 1-199 (/proc/stat) and 201-381 (top)           *)
(***************************************************************************)
\* part_004 187-190 (getCPUUsage 66-103) and 369-372 (266-285)
CPU_GetCPUUsage ==
    /\ probe \in {"cpu", "cpuTop"} /\ pc = "getCPUUsage"
    /\ LET ev == IF probe = "cpu" THEN CmdEv("read /proc/stat", 0) ELSE CmdEv("top -bn1", 0)
       IN  \/ Fatal(<<ev>>, "Error getting CPU usage")
           \/ \E usage \in {0, 45} :
                 /\ trace' = Append(trace, ev)
                 /\ cur' = usage
                 /\ pc' = "send"
                 /\ UNCHANGED <<probe, env, id, items, idx, exit>>
    /\ UNCHANGED <<orchVars, parseVars>>

\* part_004 193-198 with sendUsageToPocketBase (106-145), and 375-380 (288-327):
\* the POST is made only when now.Minute() is 0; otherwise nil is returned
CPU_SendUsage ==
    /\ probe \in {"cpu", "cpuTop"} /\ pc = "send"
    /\ \/ /\ env.minute = 0
          /\ \E st \in HttpOutcomes :
                LET req == ReqEv("POST", URL(ConfigDomain, "cpu", "", <<>>), st, "", 0)
                IN  IF StatusOK(st)
                    THEN Return(<<req, OutEv("CPU usage successfully reported!", 0)>>)
                    ELSE Fatal(<<req>>, "Error sending CPU usage to PocketBase")
       \/ /\ env.minute # 0
          /\ Return(<<OutEv("CPU usage successfully reported!", 0)>>)
    /\ UNCHANGED <<orchVars, parseVars>>

(***************************************************************************)
(* os.go                                                                   *)
(***************************************************************************)
\* os.go 135-138 (loadServerIDFromEnv 67-92): an unreadable file and a file
\* without an ID= line both end the run
OS_LoadServerID ==
    /\ probe = "os" /\ pc = "loadServerID"
    /\ \E r \in {"err", "noID", "ok"} :
          CASE r = "err" -> Fatal(<<CfgEv(".env", FALSE)>>, "Error loading server ID")
            [] r = "noID" -> Fatal(<<CfgEv(".env", TRUE)>>, "Error loading server ID")
            [] r = "ok" -> /\ trace' = Append(trace, CfgEv(".env", TRUE))
                           /\ id' = ServerID
                           /\ pc' = "getInfo"
                           /\ UNCHANGED <<probe, env, items, idx, cur, exit>>
    /\ UNCHANGED <<orchVars, parseVars>>

\* os.go 141-144 (getServerOSInfo 28-64): os.Hostname, then `uname -r` on linux only
OS_GetServerOSInfo ==
    /\ probe = "os" /\ pc = "getInfo"
    /\ LET evs == IF env.goos = "linux" THEN <<CmdEv("uname -r", 0)>> ELSE <<>>
       IN  \/ Fatal(<<>>, "Error retrieving server OS info")
           \/ /\ env.goos = "linux"
              /\ Fatal(evs, "Error retrieving server OS info")
           \/ /\ trace' = trace \o evs
              /\ pc' = "send"
              /\ UNCHANGED <<probe, env, id, items, idx, cur, exit>>
    /\ UNCHANGED <<orchVars, parseVars>>

\* os.go 147-152 (sendServerOSToPocketBase 95-129)
OS_Send ==
    /\ probe = "os" /\ pc = "send"
    /\ \E st \in HttpOutcomes :
          LET req == ReqEv("POST", URL(AdminURL, "server_os", "", <<>>), st, "", 0)
          IN  IF StatusOK(st)
              THEN Return(<<req, OutEv("Server OS info successfully sent to PocketBase.", 0)>>)
              ELSE Fatal(<<req>>, "Error sending server OS to PocketBase")
    /\ UNCHANGED <<orchVars, parseVars>>

(***************************************************************************)
(* domains.go and its earlier version part_003                             *)
(***************************************************************************)
\* domains.go 179-182, part_003 129-132
DM_LoadConfig ==
    /\ probe \in {"domains", "domainsV1"} /\ pc = "loadConfig"
    /\ \E ok \in BOOLEAN :
          IF ~ok
          THEN Fatal(<<CfgEv("smc.json", FALSE)>>, "Error loading config")
          ELSE /\ trace' = Append(trace, CfgEv("smc.json", TRUE))
               /\ pc' = "loadEnv"
               /\ UNCHANGED <<probe, env, id, items, idx, cur, exit>>
    /\ UNCHANGED <<orchVars, parseVars>>

\* domains.go 185-188 (loadEnv 39-59), part_003 135-138: an unreadable file
\* and a file without an ID= line both end the run
DM_LoadEnv ==
    /\ probe \in {"domains", "domainsV1"} /\ pc = "loadEnv"
    /\ \E r \in {"err", "noID", "ok"} :
          CASE r = "err" -> Fatal(<<CfgEv(".env", FALSE)>>, "Error loading environment")
            [] r = "noID" -> Fatal(<<CfgEv(".env", TRUE)>>, "Error loading environment")
            [] r = "ok" -> /\ trace' = Append(trace, CfgEv(".env", TRUE))
                           /\ id' = ServerID
                           /\ pc' = "getCerts"
                           /\ UNCHANGED <<probe, env, items, idx, cur, exit>>
    /\ UNCHANGED <<orchVars, parseVars>>

ProbeCertLines ==
    { l \in CertLines : HasPrefix(l.text, <<" ", " ">> \o CertLabel) }
    \cup { [text |-> <<" "," ","D","o","m","a","i","n","s",":"," ","a",".","i","o">>, key |-> NoName, special |-> FALSE] }

\* the iteration starts, or main returns when there is nothing to send
StartLoop(evs, list, next) ==
    IF Len(list) = 0
    THEN Return(evs \o <<OutEv("No certificates found.", 0)>>)
    ELSE /\ trace' = trace \o evs
         /\ items' = list
         /\ idx' = 1
         /\ pc' = next
         /\ UNCHANGED <<probe, env, id, cur, exit>>

\* domains.go 191-196: the error of getCertbotCertificates is dropped, so a
\* failed command is an empty list
DM_GetCerts ==
    /\ probe = "domains" /\ pc = "getCerts"
    /\ \/ StartLoop(<<CmdEv("certbot certificates", 0)>>, <<>>, "lookup")
       \/ \E lines \in SeqsUpTo(ProbeCertLines, MaxCerts) :
             StartLoop(<<CmdEv("certbot certificates", 0)>>,
                       getCertbotCertificates(CertbotOutput(lines)), "lookup")
    /\ UNCHANGED <<orchVars, parseVars>>

\* part_003 141-149
DM1_GetCerts ==
    /\ probe = "domainsV1" /\ pc = "getCerts"
    /\ \/ Fatal(<<CmdEv("certbot certificates", 0)>>, "Error getting certbot certificates")
       \/ \E lines \in SeqsUpTo(ProbeCertLines, MaxCerts) :
             StartLoop(<<CmdEv("certbot certificates", 0)>>,
                       getCertbotCertificatesV1(CertbotOutput(lines)), "post")
    /\ UNCHANGED <<orchVars, parseVars>>

\* the answers to the lookup: a transport error, or a status and a body
LookupResponses ==
    { [status |-> "err", body |-> ""], [status |-> "404", body |-> ""],
      [status |-> "500", body |-> ""] }
    \cup [status : {"200"},
          body : {"undecodable", "[]", "[{}]", "[{id:rec1}]", "[{id:%zz}]"}]

\* domains.go 112-116: the id of the first record, when it is a string
FirstRecordID(body) ==
    CASE body = "[{id:rec1}]" -> "rec1"
      [] body = "[{id:%zz}]" -> "%zz"
      [] OTHER -> ""

\* domains.go 90-120: the record id ("" when none), or an error
checkDomainExists(resp) ==
    IF resp.status = "err" THEN [err |-> TRUE, id |-> ""]
    ELSE IF resp.status = "200"
         THEN IF resp.body = "undecodable" THEN [err |-> TRUE, id |-> ""]
              ELSE [err |-> FALSE, id |-> FirstRecordID(resp.body)]
         ELSE [err |-> FALSE, id |-> ""]

\* http.NewRequest parses the URL: an invalid percent escape is an error
URLParses(url) == url.rec # "%zz"

\* domains.go 124
DomainsAPI == URL(ConfigDomain, "domains", "", <<>>)

\* a write that always creates, as in the earlier version: a mutant of DomainWriteRequest
DomainWriteAlwaysCreate(apiURL, recordID) == [method |-> "POST", url |-> apiURL]

\* domains.go 147-154: update the record found, or create one
DomainWriteRequest(apiURL, recordID) ==
    IF recordID # ""
    THEN [method |-> "PUT", url |-> [apiURL EXCEPT !.rec = recordID]]
    ELSE [method |-> "POST", url |-> apiURL]

\* domains.go 126-134 with checkDomainExists: the GET, then an abort on error
DM_Lookup ==
    /\ probe = "domains" /\ pc = "lookup" /\ idx <= Len(items)
    /\ \E resp \in LookupResponses :
          LET r   == checkDomainExists(resp)
              req == ReqEv("GET", [DomainsAPI EXCEPT !.filter = items[idx]],
                           resp.status, resp.body, idx)
          IN  IF r.err
              THEN Fatal(<<req, RetEv("checkDomainExists", "", FALSE, idx)>>,
                         "Error sending domains to PocketBase")
              ELSE /\ trace' = trace \o <<req, RetEv("checkDomainExists", r.id, TRUE, idx)>>
                   /\ cur' = r.id
                   /\ pc' = "write"
                   /\ UNCHANGED <<probe, env, id, items, idx, exit>>
    /\ UNCHANGED <<orchVars, parseVars>>

\* a write whose failure is only logged, as in the first domains probe: a
\* mutant of DM_Write
DM_WriteLogAndContinue ==
    /\ probe = "domains" /\ pc = "write"
    /\ LET w == DomainWriteRequest(DomainsAPI, cur)
       IN  \E st \in HttpOutcomes :
              trace' = trace \o
                  << ReqEv(w.method, w.url, st, "", idx),
                     IF StatusOK(st) THEN OutEv("Domain successfully processed", idx)
                     ELSE OutEv("Error sending domain", idx) >>
    /\ idx' = idx + 1
    /\ pc' = "lookup"
    /\ UNCHANGED <<probe, env, id, items, cur, exit, orchVars, parseVars>>

\* domains.go 137-171: build the write, send it, abort on any failure
DM_Write ==
    /\ probe = "domains" /\ pc = "write"
    /\ LET w == DomainWriteRequest(DomainsAPI, cur)
       IN  IF ~URLParses(w.url)
           THEN Fatal(<<>>, "Error sending domains to PocketBase")
           ELSE \E st \in HttpOutcomes :
                   LET req == ReqEv(w.method, w.url, st, "", idx)
                   IN  IF StatusOK(st)
                       THEN /\ trace' = trace \o
                                   <<req, OutEv("Domain successfully processed", idx)>>
                            /\ idx' = idx + 1
                            /\ pc' = "lookup"
                            /\ UNCHANGED <<probe, env, id, items, cur, exit>>
                       ELSE Fatal(<<req>>, "Error sending domains to PocketBase")
    /\ UNCHANGED <<orchVars, parseVars>>

\* domains.go 174, 204
DM_Return ==
    /\ probe = "domains" /\ pc = "lookup" /\ idx > Len(items)
    /\ Return(<<OutEv("All domains successfully processed.", 0)>>)
    /\ UNCHANGED <<orchVars, parseVars>>

\* part_003 93-122: one POST per certificate, abort on any failure
DM1_Post ==
    /\ probe = "domainsV1" /\ pc = "post" /\ idx <= Len(items)
    /\ \E st \in HttpOutcomes :
          LET req == ReqEv("POST", DomainsAPI, st, "", idx)
          IN  IF StatusOK(st)
              THEN /\ trace' = trace \o <<req, OutEv("Domain successfully sent", idx)>>
                   /\ idx' = idx + 1
                   /\ UNCHANGED <<probe, pc, env, id, items, cur, exit>>
              ELSE Fatal(<<req>>, "Error sending domains to PocketBase")
    /\ UNCHANGED <<orchVars, parseVars>>

\* part_003 124, 157
DM1_Return ==
    /\ probe = "domainsV1" /\ pc = "post" /\ idx > Len(items)
    /\ Return(<<OutEv("All domains successfully reported to PocketBase.", 0)>>)
    /\ UNCHANGED <<orchVars, parseVars>>

(***************************************************************************)
(* part_002: the first domains probe                                       *)
(***************************************************************************)
DomainsPrefix == <<" "," ","D","o","m","a","i","n","s",":"," ">>

\* part_002 50-61
RECURSIVE DomainsOfLines(_)
DomainsOfLines(ls) ==
    IF ls = <<>> THEN <<>>
    ELSE (IF HasPrefix(Head(ls), DomainsPrefix)
          THEN <<TrimPrefix(Head(ls), DomainsPrefix)>> ELSE <<>>)
         \o DomainsOfLines(Tail(ls))

parseDomains(out) == DomainsOfLines(SplitLines(out))

\* part_002 23-26 (getCertbotDomains 39-47)
V0_GetDomains ==
    /\ probe = "domainsV0" /\ pc = "getDomains"
    /\ \/ Fatal(<<CmdEv("sudo certbot certificates", 0)>>, "Error fetching Certbot domains")
       \/ \E lines \in SeqsUpTo(ProbeCertLines, MaxCerts) :
             /\ items' = parseDomains(CertbotOutput(lines))
             /\ idx' = 1
             /\ trace' = Append(trace, CmdEv("sudo certbot certificates", 0))
             /\ pc' = "post"
             /\ UNCHANGED <<probe, env, id, cur, exit>>
    /\ UNCHANGED <<orchVars, parseVars>>

\* part_002 28-35 (postToPocketBase 64-91): only 200 counts as success; a
\* failure is logged and the loop goes on
V0_Post ==
    /\ probe = "domainsV0" /\ pc = "post" /\ idx <= Len(items)
    /\ \E st \in HttpOutcomes :
          trace' = trace \o
              << ReqEv("POST", URL(AdminURL, "domains", "", <<>>), st, "", idx),
                 IF st = "200" THEN OutEv("Successfully posted domain", idx)
                 ELSE OutEv("Error posting domain", idx) >>
    /\ idx' = idx + 1
    /\ UNCHANGED <<probe, pc, env, id, items, cur, exit, orchVars, parseVars>>

\* part_002 28, 36
V0_Return ==
    /\ probe = "domainsV0" /\ pc = "post" /\ idx > Len(items)
    /\ Return(<<>>)
    /\ UNCHANGED <<orchVars, parseVars>>

(***************************************************************************)
(* part_001: the nameserver probe                                          *)
(***************************************************************************)
Records == { [id |-> "rec1", name |-> NameA], [id |-> "rec2", name |-> NameB] }

\* part_001 120-128 (getPocketBaseRecords 24-47)
NS_GetRecords ==
    /\ probe = "nameserver" /\ pc = "getRecords"
    /\ \/ \E resp \in { [status |-> "err", body |-> ""], [status |-> "404", body |-> ""],
                        [status |-> "201", body |-> ""],
                        [status |-> "200", body |-> "undecodable"] } :
             Fatal(<<ReqEv("GET", URL(AdminURL, "domains", "", <<>>), resp.status,
                           resp.body, 0)>>, "Error retrieving domains")
       \/ \E recs \in SeqsUpTo(Records, MaxRecords) :
             LET req == ReqEv("GET", URL(AdminURL, "domains", "", <<>>), "200", "items", 0)
             IN  IF Len(recs) = 0
                 THEN Return(<<req, OutEv("No domains found in PocketBase.", 0)>>)
                 ELSE /\ trace' = Append(trace, req)
                      /\ items' = recs
                      /\ idx' = 1
                      /\ pc' = "nslookup"
                      /\ UNCHANGED <<probe, env, id, cur, exit>>
    /\ UNCHANGED <<orchVars, parseVars>>

\* part_001 131-138 (getNameserverFromDNS 81-114): "" when nslookup failed,
\* "unknown" when no known nameserver was found; both are logged and the
\* update is made all the same
NS_GetNameserver ==
    /\ probe = "nameserver" /\ pc = "nslookup" /\ idx <= Len(items)
    /\ \E ns \in {"", "unknown", "udag", "hetzner", "udag, hetzner"} :
          /\ trace' = trace \o <<CmdEv("nslookup -type=NS", idx)>> \o
                        (IF ns \in {"", "unknown"}
                         THEN <<OutEv("Error getting nameserver", idx)>> ELSE <<>>)
          /\ cur' = ns
    /\ pc' = "update"
    /\ UNCHANGED <<probe, env, id, items, idx, exit, orchVars, parseVars>>

\* part_001 141-145 (updateDomainNameserver 49-79): only 200 counts as success
NS_Update ==
    /\ probe = "nameserver" /\ pc = "update"
    /\ \E st \in HttpOutcomes :
          trace' = trace \o
              << ReqEv("PATCH", URL(AdminURL, "domains", items[idx].id, <<>>), st, cur, idx),
                 IF st = "200" THEN OutEv("Domain updated with nameserver", idx)
                 ELSE OutEv("Error updating domain", idx) >>
    /\ idx' = idx + 1
    /\ pc' = "nslookup"
    /\ UNCHANGED <<probe, env, id, items, cur, exit, orchVars, parseVars>>

\* part_001 148
NS_Return ==
    /\ probe = "nameserver" /\ pc = "nslookup" /\ idx > Len(items)
    /\ Return(<<OutEv("Completed processing all domains.", 0)>>)
    /\ UNCHANGED <<orchVars, parseVars>>

ProbeNext ==
    \/ LoadEnv \/ LoadConfig \/ CheckID
    \/ HD_GetMountedPaths \/ HD_GetDiskUsage \/ HD_SendUsage \/ HD_Return
    \/ CPU_GetCPUUsage \/ CPU_SendUsage
    \/ OS_LoadServerID \/ OS_GetServerOSInfo \/ OS_Send
    \/ DM_LoadConfig \/ DM_LoadEnv \/ DM_GetCerts \/ DM_Lookup \/ DM_Write \/ DM_Return
    \/ DM1_GetCerts \/ DM1_Post \/ DM1_Return
    \/ V0_GetDomains \/ V0_Post \/ V0_Return
    \/ NS_GetRecords \/ NS_GetNameserver \/ NS_Update \/ NS_Return

ProbeSpecInit == ProbeInit /\ OrchIdle /\ ParseIdle

ProbeSpec == ProbeSpecInit /\ [][ProbeNext]_vars

(***************************************************************************)
(* Claims about the orchestrator (checked under OrchSpec).                 *)
(***************************************************************************)
Running == {k \in 1..Len(procs) : procs[k].state = "running"}

StartsOf(s) == {k \in 1..Len(procs) : procs[k].script = s}

LogIdx(kind, s) == {n \in 1..Len(olog) : olog[n].kind = kind /\ olog[n].script = s}

\* C1: the probes are started in the fixed order harddrive, cpu, domains,
\* nameserver; at most one probe subprocess is running at any time, and probe
\* k+1 is started only after probe k has finished, successfully or not.
C1_SequentialFixedOrder ==
    /\ Len(procs) <= Len(scripts)
    /\ \A k \in 1..Len(procs) : procs[k].script = scripts[k]
    /\ Cardinality(Running) <= 1
    /\ \A k \in 1..(Len(procs) - 1) : procs[k].state \in {"ok", "failed"}

\* a later probe is running after an earlier one failed
C1_Witness ==
    /\ Len(procs) >= 2
    /\ procs[1].state = "failed"
    /\ procs[2].state = "running"

\* C2: no retry: no probe is ever started a second time, whatever its exit
\* status, and when the run is over every probe of the list was started
\* exactly once.
C2_StartedExactlyOnce ==
    /\ \A k \in 1..Len(scripts) : Cardinality(StartsOf(scripts[k])) <= 1
    /\ opc = "done" => \A k \in 1..Len(scripts) : Cardinality(StartsOf(scripts[k])) = 1

\* the run is over and a probe had failed
C2_Witness ==
    /\ opc = "done"
    /\ \E k \in 1..Len(procs) : procs[k].state = "failed"

\* the run ended as C3 describes it
OrchCompleted ==
    /\ opc = "done"
    /\ Len(procs) = Len(scripts)
    /\ \A k \in 1..Len(procs) :
          /\ procs[k].script = scripts[k]
          /\ procs[k].state = "failed" =>
                \E n \in LogIdx("error", procs[k].script) : olog[n].text = procs[k].stderr
    /\ olog # <<>> /\ olog[Len(olog)].kind = "all"

\* C3: for any combination of success and failure of the four probes (each
\* terminating), every probe after a failed one is still started, each
\* failure is logged with the probe's stderr, and the orchestrator eventually
\* terminates after printing "All scripts executed.".
C3_AlwaysCompletes == <>OrchCompleted

\* the run completed although the first and the third probe failed
C3_Witness ==
    /\ OrchCompleted
    /\ procs[1].state = "failed" /\ procs[3].state = "failed"
    /\ procs[2].state = "ok" /\ procs[4].state = "ok"

\* C4 as stated: no probe's stdout is printed before all probes of the list
\* have been run.
C4_StdoutHeldToEnd ==
    \A n \in 1..Len(olog) :
        olog[n].kind = "output" =>
            /\ Len(procs) = Len(scripts)
            /\ Running = {}

\* C4 as amended: a probe's stdout is held back only until that probe has
\* exited: the stdout of a probe that exited successfully is printed right
\* after it (directly after its "Running script" line, before the next probe
\* is started), and the stdout of a failed probe is never printed.
C4_StdoutPrintedPerProbe ==
    /\ \A n \in 1..Len(olog) :
          olog[n].kind = "output" =>
              /\ n > 1
              /\ olog[n - 1].kind = "running"
              /\ olog[n - 1].script = olog[n].script
              /\ \E k \in StartsOf(olog[n].script) :
                    /\ procs[k].state = "ok"
                    /\ olog[n].text = procs[k].stdout
    /\ \A k \in 1..Len(procs) :
          /\ procs[k].state = "failed" => LogIdx("output", procs[k].script) = {}
          /\ (procs[k].state = "ok" /\ (k < Len(procs) \/ opc # "run"))
                => LogIdx("output", procs[k].script) # {}

\* the first probe's stdout is on the screen while the second probe is running
C4_Witness ==
    /\ Len(procs) = 2
    /\ procs[2].state = "running"
    /\ \E n \in LogIdx("output", scripts[1]) : olog[n].text = "report"

(***************************************************************************)
(* Claims about the parsers (checked under ParseSpec).                     *)
(***************************************************************************)
RECURSIVE Keys(_)
Keys(rows) == IF rows = <<>> THEN <<>> ELSE <<Head(rows).key>> \o Keys(Tail(rows))

IsDisk(row) == ~row.special

HasName(line) == line.key # NoName

\* C8: getMountedPaths returns one entry per data line of a disk file system,
\* in order, none taken from the header line and none for a special file
\* system (tmpfs, udev) line.
C8_ExcludesSpecialFileSystems ==
    (fn = "getMountedPaths" /\ applied) => result = Keys(SelectSeq(input, IsDisk))

\* the part of C8 the code does satisfy: the header contributes nothing and
\* every data line contributes its first field
C8_OneEntryPerDataLine ==
    (fn = "getMountedPaths" /\ applied) => result = Keys(input)

\* C9: both versions of getCertbotCertificates return, in order, exactly the
\* bare certificate name of each line containing "Certificate Name:", with
\* the label and all leading and trailing whitespace removed, also when the
\* line is indented.
C9_BareCertificateNames ==
    (fn \in {"getCertbotCertificates", "getCertbotCertificatesV1"} /\ applied)
        => result = Keys(SelectSeq(input, HasName))

\* C9 for the version of bin/domains.go alone
C9_BareNamesCurrent ==
    (fn = "getCertbotCertificates" /\ applied) => result = Keys(SelectSeq(input, HasName))

\* C9 for the earlier version alone
C9_BareNamesV1 ==
    (fn = "getCertbotCertificatesV1" /\ applied) => result = Keys(SelectSeq(input, HasName))

\* the part of C9 both versions satisfy: one entry per labelled line
C9_OneEntryPerLabelledLine ==
    (fn \in {"getCertbotCertificates", "getCertbotCertificatesV1"} /\ applied)
        => Len(result) = Len(SelectSeq(input, HasName))

(***************************************************************************)
(* Claims about the probes (checked under ProbeSpec).                      *)
(***************************************************************************)
Evs(kind) == {n \in 1..Len(trace) : trace[n].kind = kind}

Printed(msg) == \E n \in Evs("out") : trace[n].what = msg

\* C5: every HTTP request issued by any probe uses POST, PATCH or GET.
C5_OnlyPostPatchGet ==
    \A n \in Evs("req") : trace[n].what \in {"POST", "PATCH", "GET"}

\* what the code does satisfy: PUT is the only other method, and only
\* bin/domains.go sends it, to update the record its lookup found
C5_PutOnlyInDomainsUpdate ==
    \A n \in Evs("req") :
        \/ trace[n].what \in {"POST", "PATCH", "GET"}
        \/ trace[n].what = "PUT" /\ probe = "domains" /\ trace[n].url.rec # ""

ConfigProbes == {"harddrive", "cpu", "cpuTop", "os", "domains", "domainsV1"}

\* the local files the probe's main reads
ConfigFiles(p) == IF p = "os" THEN {".env"} ELSE {".env", "smc.json"}

ReadBefore(n, file) ==
    \E m \in Evs("cfg") : m < n /\ trace[m].what = file /\ trace[m].status = "ok"

\* C6: in the harddrive, cpu, os and domains probes the order is read config,
\* run command, send: a command is run or a request sent only after every
\* config file the probe needs was read successfully; a request is sent only
\* after the probe's command (os.go runs one on linux only); and when reading
\* a config file fails the probe ends in a fatal error with no command run
\* and nothing sent.
C6_ConfigThenCommandThenSend ==
    probe \in ConfigProbes =>
        /\ \A n \in Evs("cmd") \cup Evs("req") :
              \A f \in ConfigFiles(probe) : ReadBefore(n, f)
        /\ \A n \in Evs("req") :
              \/ \E m \in Evs("cmd") : m < n
              \/ probe = "os" /\ env.goos # "linux"
        /\ \A n \in Evs("cfg") :
              trace[n].status = "err" =>
                  /\ exit = "fatal"
                  /\ Evs("cmd") = {} /\ Evs("req") = {}

\* a probe that read both files, ran its command and sent a request
C6_Witness ==
    /\ probe = "harddrive"
    /\ Evs("req") # {}
    /\ \A f \in ConfigFiles(probe) : ReadBefore(Len(trace), f)

\* a probe that failed to read smc.json and ended fatally
C6_WitnessFailure ==
    /\ probe \in ConfigProbes
    /\ exit = "fatal"
    /\ \E n \in Evs("cfg") : trace[n].what = "smc.json" /\ trace[n].status = "err"

\* C7: whenever the cpu probe prints "CPU usage successfully reported!", a
\* POST to the cpu collection was sent in that run and answered 200 or 201.
C7_ReportedImpliesPosted ==
    (probe \in {"cpu", "cpuTop"} /\ Printed("CPU usage successfully reported!")) =>
        \E n \in Evs("req") :
            /\ trace[n].what = "POST"
            /\ trace[n].url.coll = "cpu"
            /\ trace[n].status \in {"200", "201"}

\* C7 holds in the runs made at minute 0 of the hour
C7_ReportedImpliesPostedAtMinuteZero ==
    (probe \in {"cpu", "cpuTop"} /\ env.minute = 0
        /\ Printed("CPU usage successfully reported!")) =>
        \E n \in Evs("req") :
            /\ trace[n].what = "POST"
            /\ trace[n].url.coll = "cpu"
            /\ trace[n].status \in {"200", "201"}

\* the requests made for certificate i: its lookup and its writes
Lookups(i) == {n \in Evs("req") : trace[n].item = i /\ trace[n].what = "GET"}
Writes(i) == {n \in Evs("req") : trace[n].item = i /\ trace[n].what # "GET"}

\* what the lookup for certificate i returned
LookupReturns(i) ==
    {n \in Evs("ret") : trace[n].item = i /\ trace[n].what = "checkDomainExists"}

\* the iteration for certificate i is past the point where the write is sent
PastWrite(i) == idx > i \/ exit # "running"

\* C10: in bin/domains.go, for each certificate name processed (its lookup
\* returned without error and the write request could be built), exactly one
\* write request is sent, after the lookup: addressed to <apiURL>/<recordID>
\* when the lookup returned a record id, otherwise a POST to <apiURL>; never
\* both, and never a write without a lookup before it.
C10_ExactlyOneWritePerName ==
    probe = "domains" =>
        \A i \in 1..Len(items) :
            /\ Cardinality(Writes(i)) <= 1
            /\ \A w \in Writes(i) :
                  \E r \in LookupReturns(i) :
                      /\ r < w
                      /\ trace[r].status = "ok"
                      /\ \E g \in Lookups(i) : g < r
                      /\ IF trace[r].body # ""
                         THEN /\ trace[w].url = [DomainsAPI EXCEPT !.rec = trace[r].body]
                              /\ trace[w].what # "POST"
                         ELSE /\ trace[w].url = DomainsAPI
                              /\ trace[w].what = "POST"
            /\ \A r \in LookupReturns(i) :
                  (/\ trace[r].status = "ok"
                   /\ URLParses([DomainsAPI EXCEPT !.rec = trace[r].body])
                   /\ PastWrite(i))
                      => Cardinality(Writes(i)) = 1

\* a run that updated the first certificate's record and created the second
C10_Witness ==
    /\ probe = "domains"
    /\ Len(items) = 2
    /\ exit = "ok"
    /\ \E w \in Writes(1) : trace[w].url.rec = "rec1"
    /\ \E w \in Writes(2) : trace[w].what = "POST" /\ trace[w].url.rec = ""

\* a request of a domains run that counts as a failure: a transport error, a
\* lookup answered 200 with a body that does not decode, or a write answered
\* with a status other than 200 and 201
DomainsFailure(n) ==
    /\ trace[n].kind = "req"
    /\ \/ trace[n].status = "err"
       \/ trace[n].what = "GET" /\ trace[n].status = "200" /\ trace[n].body = "undecodable"
       \/ trace[n].what # "GET" /\ trace[n].status \notin {"200", "201"}

\* C11: in bin/domains.go and its earlier version the first failure aborts
\* the run: once the lookup or the write for certificate i has failed, no
\* request is sent for any certificate after i (nor any further request at
\* all), the final "All domains successfully ..." line is not printed, and
\* the probe ends with a fatal error.
C11_FirstFailureAborts ==
    probe \in {"domains", "domainsV1"} =>
        \A n \in Evs("req") :
            DomainsFailure(n) =>
                /\ \A m \in Evs("req") : m <= n /\ trace[m].item <= trace[n].item
                /\ ~Printed("All domains successfully processed.")
                /\ ~Printed("All domains successfully reported to PocketBase.")
                /\ exit = "fatal"

\* the write for the first of two certificates failed and the run is over
C11_Witness ==
    /\ probe = "domains"
    /\ Len(items) = 2
    /\ exit = "fatal"
    /\ \E n \in Writes(1) : DomainsFailure(n)

\* the same in the earlier version
C11_WitnessV1 ==
    /\ probe = "domainsV1"
    /\ Len(items) = 2
    /\ exit = "fatal"
    /\ \E n \in Writes(1) : DomainsFailure(n)

\* a failed lookup aborts too
C11_WitnessLookup ==
    /\ probe = "domains"
    /\ Len(items) = 2
    /\ exit = "fatal"
    /\ \E n \in Lookups(1) : DomainsFailure(n)

\* the events of the harddrive run that belong to path i
PathEvs(i) == {n \in 1..Len(trace) : trace[n].item = i}
UsageReturns(i) == {n \in Evs("ret") : trace[n].item = i /\ trace[n].what = "getDiskUsage"}
Posts(i) == {n \in Evs("req") : trace[n].item = i}
PrintedFor(msg, i) == \E n \in Evs("out") : trace[n].what = msg /\ trace[n].item = i

\* C12: in the harddrive probe every path returned by getMountedPaths is
\* processed independently and in order: a failure of getDiskUsage or of the
\* POST for a path is logged and never ends the run, so every path is
\* processed; at most one POST is sent per path, none when getDiskUsage
\* failed for it and one when it succeeded; and the "successfully reported"
\* line is printed for a path if and only if its POST was answered 200 or 201.
C12_PathsProcessedIndependently ==
    probe = "harddrive" =>
        /\ Len(items) > 0 => exit # "fatal"
        /\ \A i \in 1..Len(items) :
              /\ \A j \in 1..Len(items) :
                    i < j => \A n \in PathEvs(i) : \A m \in PathEvs(j) : n < m
              /\ Cardinality(UsageReturns(i)) <= 1
              /\ Cardinality(Posts(i)) <= 1
              /\ idx > i => Cardinality(UsageReturns(i)) = 1
              /\ \A r \in UsageReturns(i) :
                    IF trace[r].status = "err"
                    THEN /\ Posts(i) = {}
                         /\ PrintedFor("Error getting disk usage", i)
                    ELSE idx > i => Cardinality(Posts(i)) = 1
              /\ \A n \in Posts(i) :
                    /\ \E r \in UsageReturns(i) : r < n
                    /\ trace[n].what = "POST"
                    /\ trace[n].status \notin {"200", "201"}
                          => PrintedFor("Error sending usage", i)
              /\ PrintedFor("Hard drive usage successfully reported", i)
                    <=> \E n \in Posts(i) : trace[n].status \in {"200", "201"}

\* getDiskUsage failed for the first path, the POST for the second path was
\* answered 201 and reported, and main returned
C12_Witness ==
    /\ probe = "harddrive"
    /\ Len(items) = 2
    /\ exit = "ok"
    /\ \E r \in UsageReturns(1) : trace[r].status = "err"
    /\ \E n \in Posts(2) : trace[n].status = "201"
    /\ PrintedFor("Hard drive usage successfully reported", 2)

\* the POST for the first path failed and the second path was still reported
C12_WitnessPostFailed ==
    /\ probe = "harddrive"
    /\ Len(items) = 2
    /\ exit = "ok"
    /\ \E n \in Posts(1) : trace[n].status = "500"
    /\ PrintedFor("Hard drive usage successfully reported", 2)

=============================================================================
